---- MODULE Spec2Model ----
(***************************************************************************)
(* Model of picking/SendDistance/SendDistance.ino: an Arduino sketch that   *)
(* configures a VL6180X range sensor in setup() and, in loop(), takes one  *)
(* single-shot range reading per iteration and prints it to Serial unless  *)
(* the driver reports a timeout.                                           *)
(*                                                                         *)
(* One action per statement of the sketch.  The blocking driver call of    *)
(* line 23 is split into its issue and its return so that the request in   *)
(* flight is visible in the state.  `calls' is the record a test double of *)
(* Serial / Wire / sensor would keep; `outcomes' is the sequence of        *)
(* measurement outcomes fed to the sketch so far.                          *)
(***************************************************************************)
EXTENDS Integers, Sequences, FiniteSets, TLC

VARIABLES pc, intBits, serialBaud, wireBegun, sensorInit, sensorConfigured,
          io_timeout, did_timeout, inFlight, distance, serialOut, calls,
          outcomes

vars == <<pc, intBits, serialBaud, wireBegun, sensorInit, sensorConfigured,
          io_timeout, did_timeout, inFlight, distance, serialOut, calls,
          outcomes>>

(* ---------------------------- bounds ----------------------------------- *)

\* Number of loop() iterations explored (the sketch itself never stops).
MaxIter == 3

\* Raw readings the driver hands back: the VL6180X range register is 8 bits
\* wide and the driver scales it by 1, 2 or 3, so readings lie in 0..765.
RawValues == {0, 95, 120, 255, 765}

\* Widths of `int' on the boards the sketch builds for (AVR: 16, ARM: 32).
IntWidths == {16, 32}

(* ------------------------- pure helpers -------------------------------- *)

NoValue == "none"

SetupPcs == {"setup_serial", "setup_wire", "setup_init", "setup_configure",
             "setup_timeout"}

LoopPcs == {"loop_read", "loop_wait", "loop_check", "loop_print"}

Digits == <<"0", "1", "2", "3", "4", "5", "6", "7", "8", "9">>

\* A plausible slip: the reading held in an 8-bit signed variable.
ToInt_Narrow(v, bits) ==
    LET w == v % 256 IN IF w >= 128 THEN w - 256 ELSE w

\* `int distance = <uint16_t>': conversion of an unsigned 16-bit value v to
\* a signed integer of `bits' bits (bits >= 16): v is kept when it is below
\* 2^(bits-1) and wraps to v - 2^bits otherwise.  Written with the quarter
\* modulus q = 2^(bits-2) so that every number evaluated fits 32 bits.
ToInt(v, bits) ==
    LET q == 2 ^ (bits - 2)
    IN  IF v \div q < 2 THEN v ELSE (v - 2 * q) - 2 * q

\* Print::printNumber(n, 10): decimal digits, most significant first.
RECURSIVE printNumber(_)
printNumber(n) ==
    IF n < 10 THEN <<Digits[n + 1]>>
    ELSE Append(printNumber(n \div 10), Digits[(n % 10) + 1])

\* Print::print(int): a minus sign for negative values, then the digits.
print(n) == IF n < 0 THEN <<"-">> \o printNumber(-n) ELSE printNumber(n)

\* Print::println(int): the number followed by CR LF.
println(n) == print(n) \o <<"CR", "LF">>

\* Number of occurrences of call c in the call record s.
Count(c, s) == Cardinality({i \in 1..Len(s) : s[i] = c})

requests == Count("readRangeSingleMillimeters", calls)

(* ----------------------------- Init ------------------------------------ *)

Init ==
    /\ pc = "setup_serial"
    /\ intBits \in IntWidths
    /\ serialBaud = 0
    /\ wireBegun = FALSE
    /\ sensorInit = FALSE
    /\ sensorConfigured = FALSE
    /\ io_timeout = 0
    /\ did_timeout = FALSE
    /\ inFlight = 0
    /\ distance = NoValue
    /\ serialOut = <<>>
    /\ calls = <<>>
    /\ outcomes = <<>>

(* ----------------------------- setup() --------------------------------- *)

\* A plausible slip: a start-up banner value printed right after begin().
SetupSerialBegin_Banner ==
    /\ pc = "setup_serial"
    /\ serialBaud' = 2000000
    /\ serialOut' = serialOut \o println(0)
    /\ calls' = calls \o <<"Serial.begin", "println">>
    /\ pc' = "setup_wire"
    /\ UNCHANGED <<intBits, wireBegun, sensorInit, sensorConfigured,
                   io_timeout, did_timeout, inFlight, distance, outcomes>>

\* line 13: Serial.begin(2000000);
SetupSerialBegin ==
    /\ pc = "setup_serial"
    /\ serialBaud' = 2000000
    /\ calls' = Append(calls, "Serial.begin")
    /\ pc' = "setup_wire"
    /\ UNCHANGED <<intBits, wireBegun, sensorInit, sensorConfigured,
                   io_timeout, did_timeout, inFlight, distance, serialOut,
                   outcomes>>

\* line 14: Wire.begin();
SetupWireBegin ==
    /\ pc = "setup_wire"
    /\ wireBegun' = TRUE
    /\ calls' = Append(calls, "Wire.begin")
    /\ pc' = "setup_init"
    /\ UNCHANGED <<intBits, serialBaud, sensorInit, sensorConfigured,
                   io_timeout, did_timeout, inFlight, distance, serialOut,
                   outcomes>>

\* line 15: sensor.init();
SetupSensorInit ==
    /\ pc = "setup_init"
    /\ sensorInit' = TRUE
    /\ calls' = Append(calls, "init")
    /\ pc' = "setup_configure"
    /\ UNCHANGED <<intBits, serialBaud, wireBegun, sensorConfigured,
                   io_timeout, did_timeout, inFlight, distance, serialOut,
                   outcomes>>

\* A plausible slip: the configureDefault() line left out of setup().
SetupConfigureDefault_Skipped ==
    /\ pc = "setup_configure"
    /\ pc' = "setup_timeout"
    /\ UNCHANGED <<intBits, serialBaud, wireBegun, sensorInit,
                   sensorConfigured, io_timeout, did_timeout, inFlight,
                   distance, serialOut, calls, outcomes>>

\* line 16: sensor.configureDefault();
SetupConfigureDefault ==
    /\ pc = "setup_configure"
    /\ sensorConfigured' = TRUE
    /\ calls' = Append(calls, "configureDefault")
    /\ pc' = "setup_timeout"
    /\ UNCHANGED <<intBits, serialBaud, wireBegun, sensorInit, io_timeout,
                   did_timeout, inFlight, distance, serialOut, outcomes>>

\* A plausible slip: a different timeout constant.
SetupSetTimeout_Wrong ==
    /\ pc = "setup_timeout"
    /\ io_timeout' = 50
    /\ calls' = Append(calls, "setTimeout")
    /\ pc' = "loop_read"
    /\ UNCHANGED <<intBits, serialBaud, wireBegun, sensorInit,
                   sensorConfigured, did_timeout, inFlight, distance,
                   serialOut, outcomes>>

\* line 17: sensor.setTimeout(500);  setup() returns and loop() is entered.
SetupSetTimeout ==
    /\ pc = "setup_timeout"
    /\ io_timeout' = 500
    /\ calls' = Append(calls, "setTimeout")
    /\ pc' = "loop_read"
    /\ UNCHANGED <<intBits, serialBaud, wireBegun, sensorInit,
                   sensorConfigured, did_timeout, inFlight, distance,
                   serialOut, outcomes>>

(* ----------------------------- loop() ---------------------------------- *)

\* A plausible slip: a new request started while one is still outstanding.
LoopReadIssue_Reentrant ==
    /\ pc \in {"loop_read", "loop_wait"}
    /\ requests < MaxIter
    /\ inFlight' = inFlight + 1
    /\ calls' = Append(calls, "readRangeSingleMillimeters")
    /\ pc' = "loop_wait"
    /\ UNCHANGED <<intBits, serialBaud, wireBegun, sensorInit,
                   sensorConfigured, io_timeout, did_timeout, distance,
                   serialOut, outcomes>>

\* line 23, call: sensor.readRangeSingleMillimeters() is entered and the
\* single-shot range request goes out to the sensor.
LoopReadIssue ==
    /\ pc = "loop_read"
    /\ requests < MaxIter
    /\ inFlight' = inFlight + 1
    /\ calls' = Append(calls, "readRangeSingleMillimeters")
    /\ pc' = "loop_wait"
    /\ UNCHANGED <<intBits, serialBaud, wireBegun, sensorInit,
                   sensorConfigured, io_timeout, did_timeout, distance,
                   serialOut, outcomes>>

\* line 23, return: the driver returns raw value v; when the measurement
\* timed out (t) it has set its timeout flag.  The value is stored in the
\* local `int distance'.
LoopReadReturn ==
    /\ pc = "loop_wait"
    /\ \E v \in RawValues, t \in BOOLEAN :
          /\ distance' = ToInt(v, intBits)
          /\ did_timeout' = (did_timeout \/ t)
          /\ outcomes' = Append(outcomes, [raw |-> v, timeout |-> t])
    /\ inFlight' = inFlight - 1
    /\ pc' = "loop_check"
    /\ UNCHANGED <<intBits, serialBaud, wireBegun, sensorInit,
                   sensorConfigured, io_timeout, serialOut, calls>>

\* A plausible slip: the sketch stops when a measurement times out.
LoopCheckTimeout_Halt ==
    /\ pc = "loop_check"
    /\ calls' = Append(calls, "timeoutOccurred")
    /\ did_timeout' = FALSE
    /\ IF did_timeout = FALSE
          THEN pc' = "loop_print" /\ distance' = distance
          ELSE pc' = "halt" /\ distance' = NoValue
    /\ UNCHANGED <<intBits, serialBaud, wireBegun, sensorInit,
                   sensorConfigured, io_timeout, inFlight, serialOut,
                   outcomes>>

\* A plausible slip: the flag is inspected without being consumed.
LoopCheckTimeout_NoClear ==
    /\ pc = "loop_check"
    /\ calls' = Append(calls, "timeoutOccurred")
    /\ did_timeout' = did_timeout
    /\ IF did_timeout = FALSE
          THEN pc' = "loop_print" /\ distance' = distance
          ELSE pc' = "loop_read" /\ distance' = NoValue
    /\ UNCHANGED <<intBits, serialBaud, wireBegun, sensorInit,
                   sensorConfigured, io_timeout, inFlight, serialOut,
                   outcomes>>

\* A plausible slip: the test written the wrong way round.
LoopCheckTimeout_Inverted ==
    /\ pc = "loop_check"
    /\ calls' = Append(calls, "timeoutOccurred")
    /\ did_timeout' = FALSE
    /\ IF did_timeout = TRUE
          THEN pc' = "loop_print" /\ distance' = distance
          ELSE pc' = "loop_read" /\ distance' = NoValue
    /\ UNCHANGED <<intBits, serialBaud, wireBegun, sensorInit,
                   sensorConfigured, io_timeout, inFlight, serialOut,
                   outcomes>>

\* line 24: if (sensor.timeoutOccurred() == 0).  The driver returns its
\* timeout flag and clears it.  When the test fails the body is skipped and
\* loop() returns (the local `distance' ends its life).
LoopCheckTimeout ==
    /\ pc = "loop_check"
    /\ calls' = Append(calls, "timeoutOccurred")
    /\ did_timeout' = FALSE
    /\ IF did_timeout = FALSE
          THEN pc' = "loop_print" /\ distance' = distance
          ELSE pc' = "loop_read" /\ distance' = NoValue
    /\ UNCHANGED <<intBits, serialBaud, wireBegun, sensorInit,
                   sensorConfigured, io_timeout, inFlight, serialOut,
                   outcomes>>

\* A plausible slip: the reading printed twice.
LoopPrint_Twice ==
    /\ pc = "loop_print"
    /\ serialOut' = serialOut \o println(distance) \o println(distance)
    /\ calls' = calls \o <<"println", "println">>
    /\ distance' = NoValue
    /\ pc' = "loop_read"
    /\ UNCHANGED <<intBits, serialBaud, wireBegun, sensorInit,
                   sensorConfigured, io_timeout, did_timeout, inFlight,
                   outcomes>>

\* A plausible slip: setup() run again after a report.
LoopPrint_Resetup ==
    /\ pc = "loop_print"
    /\ serialOut' = serialOut \o println(distance)
    /\ calls' = Append(calls, "println")
    /\ distance' = NoValue
    /\ pc' = IF Count("Serial.begin", calls) < 2 THEN "setup_serial"
                                                  ELSE "loop_read"
    /\ UNCHANGED <<intBits, serialBaud, wireBegun, sensorInit,
                   sensorConfigured, io_timeout, did_timeout, inFlight,
                   outcomes>>

\* line 25: Serial.println(distance); then loop() returns.
LoopPrint ==
    /\ pc = "loop_print"
    /\ serialOut' = serialOut \o println(distance)
    /\ calls' = Append(calls, "println")
    /\ distance' = NoValue
    /\ pc' = "loop_read"
    /\ UNCHANGED <<intBits, serialBaud, wireBegun, sensorInit,
                   sensorConfigured, io_timeout, did_timeout, inFlight,
                   outcomes>>

(* ------------------------- specification ------------------------------- *)

Next ==
    \/ SetupSerialBegin
    \/ SetupWireBegin
    \/ SetupSensorInit
    \/ SetupConfigureDefault
    \/ SetupSetTimeout
    \/ LoopReadIssue
    \/ LoopReadReturn
    \/ LoopCheckTimeout
    \/ LoopPrint

Spec == Init /\ [][Next]_vars

\* One thread of control: the processor always executes the next statement,
\* and the blocking read returns within the configured timeout.
FairSpec == Spec /\ WF_vars(Next)

(* --------------------- observers used by the properties ---------------- *)

SetupCalls == {"Serial.begin", "Wire.begin", "init", "configureDefault",
               "setTimeout"}

Ready == pc \in LoopPcs

ReadCall == "readRangeSingleMillimeters"

\* Outcomes of the iterations whose report-or-discard decision is complete.
Completed ==
    IF pc \in {"loop_check", "loop_print"}
       THEN SubSeq(outcomes, 1, Len(outcomes) - 1)
       ELSE outcomes

IsOk(o) == o.timeout = FALSE

\* Raw values of the non-timed-out outcomes of s, in order.
Reported(s) ==
    LET ok == SelectSeq(s, IsOk) IN [i \in 1..Len(ok) |-> ok[i].raw]

\* The character stream cut into lines at each CR LF; a trailing piece
\* without terminator is flagged.
RECURSIVE SplitLines(_, _, _)
SplitLines(s, cur, acc) ==
    IF s = <<>>
       THEN IF cur = <<>> THEN acc ELSE Append(acc, Append(cur, "unterminated"))
    ELSE IF Len(s) >= 2 /\ s[1] = "CR" /\ s[2] = "LF"
       THEN SplitLines(SubSeq(s, 3, Len(s)), <<>>, Append(acc, cur))
    ELSE SplitLines(Tail(s), Append(cur, Head(s)), acc)

Lines(s) == SplitLines(s, <<>>, <<>>)

DigitSet == {Digits[i] : i \in 1..10}

DigitVal(c) == (CHOOSE i \in 1..10 : Digits[i] = c) - 1

RECURSIVE ParseNat(_)
ParseNat(l) ==
    IF Len(l) = 1 THEN DigitVal(l[1])
    ELSE 10 * ParseNat(SubSeq(l, 1, Len(l) - 1)) + DigitVal(l[Len(l)])

\* A line is well formed when it is a plain decimal integer: digits only,
\* optionally after one minus sign.
WellFormed(l) ==
    \/ l # <<>> /\ \A i \in 1..Len(l) : l[i] \in DigitSet
    \/ Len(l) >= 2 /\ l[1] = "-" /\ \A i \in 2..Len(l) : l[i] \in DigitSet

\* The number a reader of the channel takes from a well-formed line.
ParseLine(l) ==
    IF l[1] = "-" THEN 0 - ParseNat(Tail(l)) ELSE ParseNat(l)

AllWellFormed(s) ==
    LET ls == Lines(s) IN \A i \in 1..Len(ls) : WellFormed(ls[i])

Parsed(s) == LET ls == Lines(s) IN [i \in 1..Len(ls) |-> ParseLine(ls[i])]

\* Position in `calls' of the i-th measurement request.
ReadPos(i) ==
    CHOOSE k \in 1..Len(calls) :
        calls[k] = ReadCall /\ Count(ReadCall, SubSeq(calls, 1, k)) = i

\* The calls recorded during iteration i: from its request up to the next
\* request (or the end of the record).
IterCalls(i) ==
    LET from == ReadPos(i)
        to   == IF i < requests THEN ReadPos(i + 1) - 1 ELSE Len(calls)
    IN  SubSeq(calls, from, to)

(* ------------------------------- C1 ------------------------------------ *)

C1Step ==
    (pc = "loop_check" /\ did_timeout)
        => (serialOut' = serialOut /\ pc' = "loop_read")

C1Segments ==
    \A i \in 1..Len(outcomes) :
        outcomes[i].timeout => Count("println", IterCalls(i)) = 0

C1Case ==
    ( /\ pc = "loop_read"
      /\ Len(outcomes) = 3
      /\ outcomes[1] = [raw |-> 120, timeout |-> FALSE]
      /\ outcomes[2].timeout
      /\ outcomes[3] = [raw |-> 95, timeout |-> FALSE] )
    => serialOut = <<"1", "2", "0", "CR", "LF", "9", "5", "CR", "LF">>

\* C1: Timeout suppression.  Whenever the timeout flag is set when the read
\* of an iteration has returned, the check of line 24 leaves the channel
\* untouched and the iteration ends; no println is recorded in an iteration
\* whose outcome timed out; and the outcomes 120, TIMEOUT, 95 leave exactly
\* the two lines 120 and 95 on the channel.
C1_TimeoutSuppression ==
    [](C1Segments /\ C1Case) /\ [][C1Step]_vars

C1_Witness ==
    /\ pc = "loop_read"
    /\ Len(outcomes) = 3
    /\ outcomes[1] = [raw |-> 120, timeout |-> FALSE]
    /\ outcomes[2] = [raw |-> 255, timeout |-> TRUE]
    /\ outcomes[3] = [raw |-> 95, timeout |-> FALSE]
    /\ Len(Lines(serialOut)) = 2

(* ------------------------------- C2 ------------------------------------ *)

\* C2: Pass-through fidelity.  When an iteration with a non-timed-out
\* measurement has finished, the last line on the channel reads back as
\* exactly the raw value the driver returned; raw 255 gives the line 255.
C2_PassThrough ==
    (pc = "loop_read" /\ outcomes # <<>> /\ ~outcomes[Len(outcomes)].timeout)
    => LET raw == outcomes[Len(outcomes)].raw
           ls  == Lines(serialOut)
       IN  /\ ls # <<>>
           /\ WellFormed(ls[Len(ls)])
           /\ ParseLine(ls[Len(ls)]) = raw
           /\ (raw = 255 => ls[Len(ls)] = <<"2", "5", "5">>)

C2_Witness ==
    /\ pc = "loop_read"
    /\ outcomes # <<>>
    /\ outcomes[Len(outcomes)] = [raw |-> 255, timeout |-> FALSE]
    /\ intBits = 16
    /\ SubSeq(serialOut, Len(serialOut) - 4, Len(serialOut))
          = <<"2", "5", "5", "CR", "LF">>

(* ------------------------------- C3 ------------------------------------ *)

\* C3: Initialization before acquisition.  Every recorded measurement
\* request is preceded by init and, after it, configureDefault; and while a
\* request is in flight the sensor is initialized and configured.
C3_InitBeforeAcquisition ==
    /\ \A k \in 1..Len(calls) :
          calls[k] = ReadCall =>
             \E i \in 1..Len(calls), j \in 1..Len(calls) :
                /\ i < j /\ j < k
                /\ calls[i] = "init"
                /\ calls[j] = "configureDefault"
    /\ (inFlight > 0 \/ requests > 0) => (sensorInit /\ sensorConfigured)

C3_Witness ==
    inFlight = 1 /\ requests = 1 /\ pc = "loop_wait"

(* ------------------------------- C4 ------------------------------------ *)

C4Counts ==
    /\ requests = Len(outcomes) + inFlight
    /\ pc = "loop_read" => requests = Len(outcomes)

\* C4: Unbounded repetition.  Each outcome fed corresponds to exactly one
\* request, whatever the mix of timeouts, and as long as the explored number
\* of iterations is not exhausted a further request is eventually issued.
C4_UnboundedRepetition ==
    /\ []C4Counts
    /\ \A n \in 0..(MaxIter - 1) : (requests = n) ~> (requests = n + 1)

C4_Witness ==
    /\ pc = "loop_read"
    /\ requests = MaxIter
    /\ Len(outcomes) = MaxIter
    /\ outcomes[1].timeout
    /\ \E i \in 1..Len(outcomes) : ~outcomes[i].timeout
    /\ outcomes[MaxIter - 1].timeout

(* ------------------------------- C5 ------------------------------------ *)

\* C5: Timeout configuration.  setTimeout is recorded at most once, never
\* before the end of setup(), exactly once from then on, and in every state
\* of loop() the configured timeout is 500.
C5_TimeoutConfiguredOnce ==
    /\ Count("setTimeout", calls) <= 1
    /\ pc \in SetupPcs => (Count("setTimeout", calls) = 0 /\ io_timeout = 0)
    /\ Ready => (Count("setTimeout", calls) = 1 /\ io_timeout = 500)

C5_Witness ==
    /\ pc = "loop_print"
    /\ Len(outcomes) = 2
    /\ io_timeout = 500
    /\ Count("setTimeout", calls) = 1

(* ------------------------------- C6 ------------------------------------ *)

\* C6: Single outstanding request.  At most one range request is in flight,
\* and one is in flight exactly while loop() is blocked in the read.
C6_SingleOutstanding ==
    /\ inFlight \in {0, 1}
    /\ (inFlight = 1) <=> (pc = "loop_wait")

C6_Witness ==
    inFlight = 1 /\ Len(outcomes) = 2 /\ outcomes[2].timeout

(* ------------------------------- C7 ------------------------------------ *)

\* C7: Report stream.  The channel holds exactly the non-timed-out values of
\* the completed iterations, in iteration order, one well-formed line each;
\* in particular the report of an iteration is on the channel before the
\* next request is issued.
C7_ReportStream ==
    /\ AllWellFormed(serialOut)
    /\ Parsed(serialOut) = Reported(Completed)
    /\ Count("println", calls) = Len(Lines(serialOut))

C7_Witness ==
    /\ pc = "loop_wait"
    /\ Len(outcomes) = 2
    /\ outcomes[1] = [raw |-> 765, timeout |-> FALSE]
    /\ outcomes[2] = [raw |-> 0, timeout |-> FALSE]
    /\ Parsed(serialOut) = <<765, 0>>

(* ------------------------------- C8 ------------------------------------ *)

C8Status ==
    pc = "loop_check" => did_timeout = outcomes[Len(outcomes)].timeout

C8LoopTop ==
    pc = "loop_read" =>
        /\ did_timeout = FALSE
        /\ distance = NoValue
        /\ inFlight = 0
        /\ io_timeout = 500

C8Step ==
    (pc = "loop_check" /\ ~outcomes[Len(outcomes)].timeout)
        => pc' = "loop_print"

\* C8: A timeout leaves nothing behind.  The status tested in an iteration
\* is the status of that iteration's measurement, a non-timed-out
\* measurement always goes on to be printed, and at the top of loop() the
\* sampler is in one and the same state whatever happened before.
C8_TimeoutLeavesNoTrace ==
    [](C8Status /\ C8LoopTop) /\ [][C8Step]_vars

C8_Witness ==
    /\ pc = "loop_print"
    /\ Len(outcomes) = 3
    /\ outcomes[1].timeout
    /\ outcomes[2].timeout
    /\ ~outcomes[3].timeout

(* ------------------------------- C9 ------------------------------------ *)

C9Shape ==
    /\ pc \in SetupPcs \cup LoopPcs
    /\ Ready => \A c \in SetupCalls : Count(c, calls) = 1
    /\ (pc # "loop_read" \/ requests < MaxIter) => ENABLED Next

C9Step ==
    /\ Ready => Ready'
    /\ pc = "loop_read" => pc' = "loop_wait"
    /\ pc = "loop_wait" => pc' = "loop_check"
    /\ pc = "loop_check" =>
          /\ pc' \in {"loop_print", "loop_read"}
          /\ serialOut' = serialOut
    /\ pc = "loop_print" => (pc' = "loop_read" /\ serialOut' # serialOut)

\* C9: Lifecycle.  Once in loop() the sketch stays in loop() and every setup
\* call has been made exactly once; an iteration goes request, return,
\* check, and then either prints (Reporting) or returns without output
\* (Discarding) before the next request; no state is terminal.
C9_Lifecycle ==
    []C9Shape /\ [][C9Step]_vars

C9_Witness ==
    /\ pc = "loop_read"
    /\ Len(outcomes) = 2
    /\ ~outcomes[1].timeout
    /\ outcomes[2].timeout
    /\ Count("println", calls) = 1

(* ------------------------------- C10 ----------------------------------- *)

\* C10: Setup ordering and silence.  Serial.begin(2000000) precedes every
\* write, Wire.begin precedes sensor.init, setup() issues no request and
\* writes nothing, and the channel is empty as long as no iteration with a
\* non-timed-out measurement has completed.
C10_SetupOrderAndSilence ==
    /\ \A k \in 1..Len(calls) :
          /\ calls[k] = "println" =>
                \E i \in 1..(k - 1) : calls[i] = "Serial.begin"
          /\ calls[k] = "init" =>
                \E i \in 1..(k - 1) : calls[i] = "Wire.begin"
    /\ serialOut # <<>> => serialBaud = 2000000
    /\ sensorInit => wireBegun
    /\ pc \in SetupPcs =>
          (requests = 0 /\ serialOut = <<>> /\ Count("println", calls) = 0)
    /\ Reported(Completed) = <<>> => serialOut = <<>>

C10_Witness ==
    /\ pc = "loop_read"
    /\ Len(outcomes) = 2
    /\ outcomes[1].timeout
    /\ ~outcomes[2].timeout
    /\ Len(Lines(serialOut)) = 1
    /\ calls[1] = "Serial.begin"

====
